---------------------------- MODULE Spec2Model ----------------------------
(* A model of src/app1.py, the UNIVERSITY SCADA DASHBOARD: a Streamlit     *)
(* script that talks to a microcontroller over one serial link.            *)
(*                                                                         *)
(* Streamlit re-runs the whole script (main) for a session each time its   *)
(* operator interacts with a widget; each session's run is a thread of the *)
(* one server process.  A run is modelled as a sequence of steps, one per  *)
(* block of the script, with send_command split at its time.sleep(0.1)     *)
(* into the write and the readline, which is where another session's run   *)
(* can be scheduled.                                                       *)
(*                                                                         *)
(* Text is modelled as a sequence of one-character strings, so that        *)
(* strip, split and float are computed as Python computes them.            *)
EXTENDS Integers, Sequences, FiniteSets, TLC

\* ------------------------------------------------------------------ bounds

\* The operator stops clicking "Read Current" once the store holds this many
\* samples (the code has no bound on the store).
MaxSamples == 2

\* The wall clock runs from 0 to MaxTime.
MaxTime == 1

\* serial.Serial(...) attempts counted before the model stops opening.
MaxOpens == 2

\* ----------------------------------------------------- program constants

\* range(5): the five bulb buttons.
NumBulbs == 5

\* st.columns(5): the five status columns.
NumStatusCols == 5

\* ------------------------------------------------------------------- text

Whitespace == {" ", "\t", "\n", "\r"}

DigitChars == {"0", "1", "2", "3", "4", "5", "6", "7", "8", "9"}

DigitVal(c) ==
    CASE c = "0" -> 0 [] c = "1" -> 1 [] c = "2" -> 2 [] c = "3" -> 3
      [] c = "4" -> 4 [] c = "5" -> 5 [] c = "6" -> 6 [] c = "7" -> 7
      [] c = "8" -> 8 [] c = "9" -> 9

\* A byte that is not valid UTF-8 (bytes.decode() raises on it).
BadByte == "<0xFF>"

\* str.strip(): leading and trailing whitespace removed.
RECURSIVE LStrip(_)
LStrip(s) ==
    IF s # <<>> /\ Head(s) \in Whitespace THEN LStrip(Tail(s)) ELSE s

RECURSIVE RStrip(_)
RStrip(s) ==
    IF s # <<>> /\ s[Len(s)] \in Whitespace
    THEN RStrip(SubSeq(s, 1, Len(s) - 1))
    ELSE s

Strip(s) == RStrip(LStrip(s))

\* bytes.decode(): the text of the bytes; raises UnicodeDecodeError on a bad
\* byte.
Decodable(raw) == \A i \in 1..Len(raw) : raw[i] # BadByte

Decode(raw) == raw

\* str.split(','): always at least one token; "" splits into [""].
RECURSIVE Split(_)
Split(s) ==
    IF \E i \in 1..Len(s) : s[i] = ","
    THEN LET i == CHOOSE k \in 1..Len(s) :
                      /\ s[k] = ","
                      /\ \A j \in 1..(k - 1) : s[j] # ","
         IN  <<SubSeq(s, 1, i - 1)>> \o Split(SubSeq(s, i + 1, Len(s)))
    ELSE <<s>>

\* The unit of a current: one thousandth of an amp.
Milli == 10 * 10 * 10

RECURSIVE DigitsVal(_)
DigitsVal(ds) ==
    IF ds = <<>> THEN 0
    ELSE DigitsVal(SubSeq(ds, 1, Len(ds) - 1)) * 10 + DigitVal(ds[Len(ds)])

\* float(str) for the decimal literals  [sign] digits [. [digits]]  and
\* [sign] . digits  (surrounding whitespace allowed).  ok = FALSE is
\* ValueError.  The exponent, "_" digit separators and the words inf, nan
\* and infinity are not modelled: no text of the model spells one.  The
\* value is in thousandths of an amp (fraction digits after the third are
\* dropped; the model's texts have at most three).
ParseFloat(str) ==
    LET s      == Strip(str)
        signed == s # <<>> /\ s[1] \in {"+", "-"}
        body   == IF signed THEN Tail(s) ELSE s
        dots   == {i \in 1..Len(body) : body[i] = "."}
        p      == IF dots = {} THEN Len(body) + 1
                  ELSE CHOOSE i \in dots : TRUE
        ip     == SubSeq(body, 1, p - 1)
        fp     == SubSeq(body, p + 1, Len(body))
        wf     == /\ Cardinality(dots) <= 1
                  /\ \A i \in 1..Len(body) : body[i] \in DigitChars \cup {"."}
                  /\ Len(ip) + Len(fp) >= 1
        fp3    == SubSeq(fp \o <<"0", "0", "0">>, 1, 3)
        mag    == DigitsVal(ip) * Milli + DigitsVal(fp3)
    IN  IF wf
        THEN [ok |-> TRUE,
              val |-> IF signed /\ s[1] = "-" THEN 0 - mag ELSE mag]
        ELSE [ok |-> FALSE, val |-> 0]

\* f"{x:.2f} A": the value in hundredths, correctly rounded from the binary
\* value, ties to even.  (A thousandths value ending in 5 is a tie only
\* when it is a multiple of 1/8, which all such values of the model are.)
Fmt2(v) ==
    LET a  == IF v < 0 THEN 0 - v ELSE v
        q  == a \div 10
        r  == a % 10
        up == r > 5 \/ (r = 5 /\ q % 2 = 1)
        h  == IF up THEN q + 1 ELSE q
    IN  [hundredths |-> IF v < 0 THEN 0 - h ELSE h, unit |-> "A"]

\* ------------------------------------------------------------ the texts

ON == <<"O", "N">>

OFF == <<"O", "F", "F">>

RECURSIVE JoinComma(_)
JoinComma(toks) ==
    IF Len(toks) = 0 THEN <<>>
    ELSE IF Len(toks) = 1 THEN toks[1]
    ELSE toks[1] \o <<",">> \o JoinComma(Tail(toks))

CRLF == <<"\r", "\n">>

\* "Error: No serial connection"
ErrNoConn ==
    <<"E", "r", "r", "o", "r", ":", " ", "N", "o", " ",
      "s", "e", "r", "i", "a", "l", " ",
      "c", "o", "n", "n", "e", "c", "t", "i", "o", "n">>

\* What ser.readline() can return: the bytes of one line the device printed
\* (Serial.println ends a line with CR LF), nothing at all when the read
\* times out (TIMEOUT = 1), or bytes that are not text.
LineTimeout == <<>>

LineCurrent1 == <<"1", ".", "5">> \o CRLF

LineCurrent2 == <<"-", "2">> \o CRLF

LineCurrent3 == <<"0", ".", "1", "2", "5">> \o CRLF

LineStatus5 == JoinComma(<<ON, OFF, ON, OFF, ON>>) \o CRLF

LineStatus2 == JoinComma(<<ON, OFF>>) \o CRLF

LineStatus6 == JoinComma(<<ON, OFF, ON, OFF, ON, OFF>>) \o CRLF

LineGarbled == <<"O", BadByte>> \o CRLF

RawLines ==
    {LineTimeout, LineCurrent1, LineCurrent2, LineCurrent3,
     LineStatus5, LineStatus2, LineStatus6, LineGarbled}

\* A device that only ever answers a status line, or not in time.
StatusLines == {LineTimeout, LineStatus5}

\* ------------------------------------------------------------------ state

\* The browser sessions the server process can serve.
Sessions == {"s1", "s2"}

Tabs == {"System Control", "Current Monitoring", "Report and Data Analytics"}

\* The serial.Serial object, and Python's None.
Ser == "Serial"

None == "None"

\* f"TOGGLE{i}" and f"Button {i}".
ToggleCmd(i) == "TOGGLE" \o ToString(i)

BulbButton(i) == "Button " \o ToString(i)

BulbButtons == {BulbButton(i) : i \in 0..(NumBulbs - 1)}

ReadButton == "Read Current"

PowerButton == "Toggle Power"

NoClick == "none"

\* No st.metric on the page.
NoMetric == [hundredths |-> 0, unit |-> "none"]

\* No text on the page where one could be.
NoText == <<"<", "n", "o", "n", "e", ">">>

VARIABLES
    active,         \* the sessions connected to the process
    device,         \* the lines the attached device can answer with
    cache,          \* st.cache_resource's entry for get_serial_connection
    opens,          \* serial.Serial(...) calls made so far
    now,            \* the wall clock
    inflight,       \* sessions that have written a command and not yet read
    pc,             \* where each session's script run is
    selected,       \* option_menu's value
    clicked,        \* the button whose click started the run
    ser,            \* main's local ser
    session_state,  \* st.session_state: is 'data' set, and its rows
    cmd,            \* send_command's argument
    ret,            \* where send_command returns to
    resp,           \* send_command's return value
    callTime,       \* the clock when read_current was entered (0 outside it)
    page,           \* what the run has put on the page
    run             \* what the run has done (history)

vars ==
    <<active, device, cache, opens, now, inflight, pc, selected, clicked, ser,
      session_state, cmd, ret, resp, callTime, page, run>>

\* The page a run starts from.
BlankPage ==
    [buttons   |-> {},          \* the st.button widgets drawn
     connError |-> FALSE,       \* st.error(f"Error: {e}")
     written   |-> NoText,      \* st.write(f"... Response: {response}")
     rows      |-> <<>>,        \* status_cols[i].write(...): the state shown
     invalid   |-> NoText,      \* st.error(f"Invalid current reading: ...")
     metric    |-> NoMetric,    \* st.metric(label="Current", ...)
     chart     |-> <<>>,        \* the rows st.altair_chart draws
     report    |-> "none",      \* data_analytics: "none", "no data", "table"
     exception |-> "none"]      \* the uncaught exception Streamlit shows

\* What a run has done so far.
FreshRun ==
    [calls   |-> <<>>,          \* the commands send_command was called with
     writes  |-> <<>>,          \* the commands written to the link
     reads   |-> 0,             \* the readline() calls made
     viewed  |-> FALSE,         \* display_current_reading has run
     reading |-> "none",        \* read_current: "none", "stored", "invalid"
     value   |-> 0,             \* the float read_current stored
     states  |-> <<>>]          \* status.split(','), when status was split

Data(s) == session_state[s].data

TypeOK ==
    /\ active \subseteq Sessions
    /\ device \subseteq RawLines
    /\ cache \in [hit : BOOLEAN, value : {Ser, None}]
    /\ opens \in 0..MaxOpens
    /\ now \in 0..MaxTime
    /\ inflight \subseteq Sessions
    /\ selected \in [Sessions -> Tabs]
    /\ ser \in [Sessions -> {Ser, None}]
    /\ callTime \in [Sessions -> 0..MaxTime]
    /\ \A s \in Sessions :
          /\ session_state[s].has \in BOOLEAN
          /\ Len(Data(s)) <= MaxSamples
          /\ Len(run[s].calls) <= 2

InitWith(act, dev) ==
    /\ active = act
    /\ device = dev
    /\ cache = [hit |-> FALSE, value |-> None]
    /\ opens = 0
    /\ now = 0
    /\ inflight = {}
    /\ pc = [s \in Sessions |-> IF s \in act THEN "main" ELSE "closed"]
    /\ selected = [s \in Sessions |-> "System Control"]
    /\ clicked = [s \in Sessions |-> NoClick]
    /\ ser = [s \in Sessions |-> None]
    /\ session_state = [s \in Sessions |-> [has |-> FALSE, data |-> <<>>]]
    /\ cmd = [s \in Sessions |-> ""]
    /\ ret = [s \in Sessions |-> ""]
    /\ resp = [s \in Sessions |-> <<>>]
    /\ callTime = [s \in Sessions |-> 0]
    /\ page = [s \in Sessions |-> BlankPage]
    /\ run = [s \in Sessions |-> FreshRun]

\* One operator's session against any device.
Init == InitWith({"s1"}, RawLines)

\* Two browser tabs on the one process.
InitMT == InitWith(Sessions, StatusLines)

\* --------------------------------------------------------------- helpers

Goto(s, label) == pc' = [pc EXCEPT ![s] = label]

\* send_command returns: its frame is gone.
Return(s) ==
    /\ cmd' = [cmd EXCEPT ![s] = ""]
    /\ ret' = [ret EXCEPT ![s] = ""]

\* A call of send_command(ser, command) that returns to `back`.
CallSendCommand(s, command, back) ==
    /\ cmd' = [cmd EXCEPT ![s] = command]
    /\ ret' = [ret EXCEPT ![s] = back]
    /\ run' = [run EXCEPT ![s].calls = Append(@, command)]
    /\ Goto(s, "send_command")

\* An uncaught exception: Streamlit shows it and the run ends there.
Raise(s, pg, name) ==
    /\ page' = [page EXCEPT ![s] = [pg EXCEPT !.exception = name]]
    /\ Goto(s, "idle")

\* ----------------------------------------------------- the script's parts

\* get_serial_connection without its cache: every run opens the port again.
get_serial_connection_uncached(s, ok) ==
    /\ opens < MaxOpens
    /\ opens' = opens + 1
    /\ cache' = [hit |-> TRUE, value |-> IF ok THEN Ser ELSE None]
    /\ ser' = [ser EXCEPT ![s] = IF ok THEN Ser ELSE None]

\* @st.cache_resource get_serial_connection(): the first call runs the body,
\* under the cache's lock, and its return value (the Serial object, or None
\* when serial.Serial raised SerialException) is cached for the process;
\* every later call, in any session, returns the cached value.  `ok` says
\* whether the port opens.
get_serial_connection(s, ok) ==
    IF cache.hit
    THEN /\ ser' = [ser EXCEPT ![s] = cache.value]
         /\ UNCHANGED <<cache, opens>>
    ELSE /\ opens < MaxOpens
         /\ opens' = opens + 1
         /\ cache' = [hit |-> TRUE, value |-> IF ok THEN Ser ELSE None]
         /\ ser' = [ser EXCEPT ![s] = IF ok THEN Ser ELSE None]

\* initialize_session_state without its test: a new DataFrame every run.
initialize_session_state_always(s) ==
    session_state' = [session_state EXCEPT ![s] = [has |-> TRUE, data |-> <<>>]]

\* initialize_session_state(): an empty DataFrame, unless 'data' is there.
initialize_session_state(s) ==
    IF session_state[s].has
    THEN UNCHANGED session_state
    ELSE session_state' =
             [session_state EXCEPT ![s] = [has |-> TRUE, data |-> <<>>]]

\* display_current_reading with iloc[0] for iloc[-1].
display_current_reading_first(s, pg) ==
    IF Data(s) # <<>>
    THEN [pg EXCEPT !.metric = Fmt2(Data(s)[1].current)]
    ELSE pg

\* display_current_reading() and display_current_chart() on page pg.
display_current_reading(s, pg) ==
    IF Data(s) # <<>>
    THEN [pg EXCEPT !.metric = Fmt2(Data(s)[Len(Data(s))].current)]
    ELSE pg

display_current_chart(s, pg) ==
    IF Data(s) # <<>> THEN [pg EXCEPT !.chart = Data(s)] ELSE pg

\* The status rows: enumerate(states) written into the five columns of
\* st.columns(5); status_cols[5] raises IndexError.
StatusRows(states) ==
    IF Len(states) > NumStatusCols
    THEN SubSeq(states, 1, NumStatusCols)
    ELSE states

\* if st.button("Read Current"): read_current(ser), up to its send_command.
ReadCurrentButton(s, back) ==
    /\ page' = [page EXCEPT ![s].buttons = @ \cup {ReadButton}]
    /\ IF clicked[s] = ReadButton
       THEN /\ callTime' = [callTime EXCEPT ![s] = now]
            /\ CallSendCommand(s, "READ", back)
       ELSE /\ Goto(s, "display")
            /\ UNCHANGED <<callTime, cmd, ret, run>>

\* ---------------------------------------------------------------- actions

\* The operator picks a tab of the option_menu: the script re-runs.
SelectTab(s, t) ==
    /\ pc[s] = "idle"
    /\ selected' = [selected EXCEPT ![s] = t]
    /\ clicked' = [clicked EXCEPT ![s] = NoClick]
    /\ Goto(s, "main")
    /\ UNCHANGED <<active, device, cache, opens, now, inflight, ser,
                   session_state, cmd, ret, resp, callTime, page, run>>

\* The operator clicks a button that is on the page: the script re-runs and
\* that button's st.button(...) returns True in the run.
ClickButton(s, b) ==
    /\ pc[s] = "idle"
    /\ b \in page[s].buttons
    /\ b = ReadButton => Len(Data(s)) < MaxSamples
    /\ clicked' = [clicked EXCEPT ![s] = b]
    /\ Goto(s, "main")
    /\ UNCHANGED <<active, device, cache, opens, now, inflight, selected, ser,
                   session_state, cmd, ret, resp, callTime, page, run>>

\* Time passes.
Tick ==
    /\ now < MaxTime
    /\ now' = now + 1
    /\ UNCHANGED <<active, device, cache, opens, inflight, pc, selected,
                   clicked, ser, session_state, cmd, ret, resp, callTime,
                   page, run>>

\* main() up to the tab's function.
Main(s, ok) ==
    /\ pc[s] = "main"
    /\ get_serial_connection(s, ok)
    /\ initialize_session_state(s)
    /\ page' = [page EXCEPT ![s] =
                   [BlankPage EXCEPT !.connError = ~cache.hit /\ ~ok]]
    /\ run' = [run EXCEPT ![s] = FreshRun]
    /\ Goto(s, CASE selected[s] = "Current Monitoring" -> "current_monitoring"
                 [] selected[s] = "System Control" -> "system_control"
                 [] selected[s] = "Report and Data Analytics" ->
                        "data_analytics")
    /\ UNCHANGED <<active, device, now, inflight, selected, clicked, cmd, ret,
                   resp, callTime>>

\* system_control(): "Bulb Control", the five buttons.
BulbControl(s) ==
    /\ pc[s] = "system_control"
    /\ page' = [page EXCEPT ![s].buttons = @ \cup BulbButtons]
    /\ IF \E i \in 0..(NumBulbs - 1) : clicked[s] = BulbButton(i)
       THEN LET i == CHOOSE k \in 0..(NumBulbs - 1) :
                         clicked[s] = BulbButton(k)
            IN  CallSendCommand(s, ToggleCmd(i), "toggle_response")
       ELSE /\ Goto(s, "bulb_status")
            /\ UNCHANGED <<cmd, ret, run>>
    /\ UNCHANGED <<active, device, cache, opens, now, inflight, selected,
                   clicked, ser, session_state, resp, callTime>>

\* st.write(f"Control System Response: {response}")
ToggleResponse(s) ==
    /\ pc[s] = "toggle_response"
    /\ page' = [page EXCEPT ![s].written = resp[s]]
    /\ resp' = [resp EXCEPT ![s] = <<>>]
    /\ Goto(s, "bulb_status")
    /\ UNCHANGED <<active, device, cache, opens, now, inflight, selected,
                   clicked, ser, session_state, cmd, ret, callTime, run>>

\* system_control without its status query.
BulbStatus_skipped(s) ==
    /\ pc[s] = "bulb_status"
    /\ Goto(s, "sc_current")
    /\ UNCHANGED <<active, device, cache, opens, now, inflight, selected,
                   clicked, ser, session_state, cmd, ret, resp, callTime,
                   page, run>>

\* system_control(): "Bulb Status", status = send_command(ser, "STATUS").
BulbStatus(s) ==
    /\ pc[s] = "bulb_status"
    /\ CallSendCommand(s, "STATUS", "status_display")
    /\ UNCHANGED <<active, device, cache, opens, now, inflight, selected,
                   clicked, ser, session_state, resp, callTime, page>>

\* system_control(): if status: split it and write one row per token.
StatusDisplay(s) ==
    /\ pc[s] = "status_display"
    /\ resp' = [resp EXCEPT ![s] = <<>>]
    /\ IF resp[s] # <<>>
       THEN LET states == Split(resp[s])
                pg     == [page[s] EXCEPT !.rows = StatusRows(states)]
            IN  /\ run' = [run EXCEPT ![s].states = states]
                /\ IF Len(states) > NumStatusCols
                   THEN Raise(s, pg, "IndexError")
                   ELSE /\ page' = [page EXCEPT ![s] = pg]
                        /\ Goto(s, "sc_current")
       ELSE /\ Goto(s, "sc_current")
            /\ UNCHANGED <<page, run>>
    /\ UNCHANGED <<active, device, cache, opens, now, inflight, selected,
                   clicked, ser, session_state, cmd, ret, callTime>>

\* system_control(): "Current Monitoring", the Read Current button.
SystemControlRead(s) ==
    /\ pc[s] = "sc_current"
    /\ ReadCurrentButton(s, "read_parse")
    /\ UNCHANGED <<active, device, cache, opens, now, inflight, selected,
                   clicked, ser, session_state, resp>>

\* current_monitoring(): the Read Current button.
CurrentMonitoringRead(s) ==
    /\ pc[s] = "current_monitoring"
    /\ ReadCurrentButton(s, "read_parse")
    /\ UNCHANGED <<active, device, cache, opens, now, inflight, selected,
                   clicked, ser, session_state, resp>>

\* read_current assigning the new row instead of concatenating it.
read_current_overwrite(s) ==
    LET f == ParseFloat(resp[s])
    IN  IF f.ok
        THEN /\ session_state' = [session_state EXCEPT ![s].data =
                    <<[timestamp |-> now, current |-> f.val]>>]
             /\ run' = [run EXCEPT ![s].reading = "stored",
                                   ![s].value = f.val]
             /\ UNCHANGED page
        ELSE /\ page' = [page EXCEPT ![s].invalid = resp[s]]
             /\ run' = [run EXCEPT ![s].reading = "invalid"]
             /\ UNCHANGED session_state

\* read_current storing 0.0 for a reading it cannot parse.
read_current_zero(s) ==
    LET f == ParseFloat(resp[s])
    IN  /\ session_state' = [session_state EXCEPT ![s].data =
               Append(@, [timestamp |-> now,
                          current |-> IF f.ok THEN f.val ELSE 0])]
        /\ IF f.ok
           THEN /\ run' = [run EXCEPT ![s].reading = "stored",
                                      ![s].value = f.val]
                /\ UNCHANGED page
           ELSE /\ page' = [page EXCEPT ![s].invalid = resp[s]]
                /\ run' = [run EXCEPT ![s].reading = "invalid"]

\* read_current() after its send_command: float(current_str), and the new
\* row with pd.Timestamp.now(), or st.error on ValueError.
read_current(s) ==
    LET f == ParseFloat(resp[s])
    IN  IF f.ok
        THEN /\ session_state' = [session_state EXCEPT ![s].data =
                    Append(@, [timestamp |-> now, current |-> f.val])]
             /\ run' = [run EXCEPT ![s].reading = "stored",
                                   ![s].value = f.val]
             /\ UNCHANGED page
        ELSE /\ page' = [page EXCEPT ![s].invalid = resp[s]]
             /\ run' = [run EXCEPT ![s].reading = "invalid"]
             /\ UNCHANGED session_state

ReadParse(s) ==
    /\ pc[s] = "read_parse"
    /\ read_current(s)
    /\ resp' = [resp EXCEPT ![s] = <<>>]
    /\ callTime' = [callTime EXCEPT ![s] = 0]
    /\ Goto(s, "display")
    /\ UNCHANGED <<active, device, cache, opens, now, inflight, selected,
                   clicked, ser, cmd, ret>>

\* display_current_reading(); display_current_chart()
Display(s) ==
    /\ pc[s] = "display"
    /\ page' = [page EXCEPT ![s] =
                   display_current_chart(s, display_current_reading(s, @))]
    /\ run' = [run EXCEPT ![s].viewed = TRUE]
    /\ Goto(s, "power_control")
    /\ UNCHANGED <<active, device, cache, opens, now, inflight, selected,
                   clicked, ser, session_state, cmd, ret, resp, callTime>>

\* data_analytics(): the table, chart and statistics, or "No data ...".
DataAnalytics(s) ==
    /\ pc[s] = "data_analytics"
    /\ page' = [page EXCEPT ![s].report =
                   IF Data(s) = <<>> THEN "no data" ELSE "table"]
    /\ Goto(s, "power_control")
    /\ UNCHANGED <<active, device, cache, opens, now, inflight, selected,
                   clicked, ser, session_state, cmd, ret, resp, callTime,
                   run>>

\* main sending POWER whether or not the button was clicked.
PowerControl_unconditional(s) ==
    /\ pc[s] = "power_control"
    /\ page' = [page EXCEPT ![s].buttons = @ \cup {PowerButton}]
    /\ CallSendCommand(s, "POWER", "power_response")
    /\ UNCHANGED <<active, device, cache, opens, now, inflight, selected,
                   clicked, ser, session_state, resp, callTime>>

\* main(): "Power Control", the Toggle Power button.
PowerControl(s) ==
    /\ pc[s] = "power_control"
    /\ page' = [page EXCEPT ![s].buttons = @ \cup {PowerButton}]
    /\ IF clicked[s] = PowerButton
       THEN CallSendCommand(s, "POWER", "power_response")
       ELSE /\ Goto(s, "idle")
            /\ UNCHANGED <<cmd, ret, run>>
    /\ UNCHANGED <<active, device, cache, opens, now, inflight, selected,
                   clicked, ser, session_state, resp, callTime>>

\* st.write(f"Power Control Response: {response}"); the run ends.
PowerResponse(s) ==
    /\ pc[s] = "power_response"
    /\ page' = [page EXCEPT ![s].written = resp[s]]
    /\ resp' = [resp EXCEPT ![s] = <<>>]
    /\ Goto(s, "idle")
    /\ UNCHANGED <<active, device, cache, opens, now, inflight, selected,
                   clicked, ser, session_state, cmd, ret, callTime, run>>

\* send_command without its test of ser.
send_command_unchecked(s) ==
    /\ inflight' = inflight \cup {s}
    /\ run' = [run EXCEPT ![s].writes = Append(@, cmd[s])]
    /\ Goto(s, "readline")
    /\ UNCHANGED <<resp, cmd, ret>>

\* send_command(): if ser: ser.write(command.encode()), then the sleep;
\* otherwise return "Error: No serial connection".
send_command(s) ==
    IF ser[s] # None
    THEN /\ inflight' = inflight \cup {s}
         /\ run' = [run EXCEPT ![s].writes = Append(@, cmd[s])]
         /\ Goto(s, "readline")
         /\ UNCHANGED <<resp, cmd, ret>>
    ELSE /\ resp' = [resp EXCEPT ![s] = ErrNoConn]
         /\ Goto(s, ret[s])
         /\ Return(s)
         /\ UNCHANGED <<inflight, run>>

SendCommand(s) ==
    /\ pc[s] = "send_command"
    /\ send_command(s)
    /\ UNCHANGED <<active, device, cache, opens, now, selected, clicked, ser,
                   session_state, callTime, page>>

\* send_command(): return ser.readline().decode().strip()
ReadLine(s, raw) ==
    /\ pc[s] = "readline"
    /\ raw \in device
    /\ inflight' = inflight \ {s}
    /\ run' = [run EXCEPT ![s].reads = @ + 1]
    /\ IF Decodable(raw)
       THEN /\ resp' = [resp EXCEPT ![s] = Strip(Decode(raw))]
            /\ Goto(s, ret[s])
            /\ UNCHANGED <<page, callTime>>
       ELSE /\ Raise(s, page[s], "UnicodeDecodeError")
            /\ callTime' = [callTime EXCEPT ![s] = 0]
            /\ UNCHANGED resp
    /\ Return(s)
    /\ UNCHANGED <<active, device, cache, opens, now, selected, clicked, ser,
                   session_state>>

Next ==
    \/ Tick
    \/ \E s \in active, t \in Tabs : SelectTab(s, t)
    \/ \E s \in active, b \in BulbButtons \cup {ReadButton, PowerButton} :
          ClickButton(s, b)
    \/ \E s \in active, ok \in BOOLEAN : Main(s, ok)
    \/ \E s \in active : BulbControl(s)
    \/ \E s \in active : ToggleResponse(s)
    \/ \E s \in active : BulbStatus(s)
    \/ \E s \in active : StatusDisplay(s)
    \/ \E s \in active : SystemControlRead(s)
    \/ \E s \in active : CurrentMonitoringRead(s)
    \/ \E s \in active : ReadParse(s)
    \/ \E s \in active : Display(s)
    \/ \E s \in active : DataAnalytics(s)
    \/ \E s \in active : PowerControl(s)
    \/ \E s \in active : PowerResponse(s)
    \/ \E s \in active : SendCommand(s)
    \/ \E s \in active, raw \in RawLines : ReadLine(s, raw)

Spec == Init /\ [][Next]_vars

SpecMT == InitMT /\ [][Next]_vars

\* ------------------------------------------------------------ properties

\* run[s] and page[s] describe the run that began with the last Main(s).
InRun(s) == pc[s] \notin {"main", "closed"}

\* The labels send_command returns to.
ReturnLabels ==
    {"toggle_response", "status_display", "read_parse", "power_response"}

IsPrefix(a, b) == Len(a) <= Len(b) /\ SubSeq(b, 1, Len(a)) = a

Count(seq, x) == Cardinality({i \in 1..Len(seq) : seq[i] = x})

LastRow(rows) == rows[Len(rows)]

\* C1: when the READ response parses as a float, read_current appends
\* exactly one sample: the store grows by one row, the rows it had are
\* unchanged, and the new last row holds float(response) and a timestamp
\* not earlier than the call of read_current.
C1_NumericReadAppendsOneSample ==
    [][\A s \in Sessions :
          (/\ pc[s] = "read_parse"
           /\ pc'[s] # "read_parse"
           /\ ParseFloat(resp[s]).ok)
          => /\ Len(session_state'[s].data) = Len(Data(s)) + 1
             /\ SubSeq(session_state'[s].data, 1, Len(Data(s))) = Data(s)
             /\ LastRow(session_state'[s].data).current =
                    ParseFloat(resp[s]).val
             /\ LastRow(session_state'[s].data).timestamp >= callTime[s]
             /\ LastRow(session_state'[s].data).timestamp <= now']_vars

\* A READ answered "0.125" has just been stored after an earlier sample.
C1_Witness ==
    \E s \in Sessions :
        /\ pc[s] = "display"
        /\ run[s].reading = "stored"
        /\ Len(Data(s)) = 2
        /\ Data(s)[2] = [timestamp |-> 1, current |-> 125]
        /\ Data(s)[1].timestamp = 0

\* C2: when the READ response does not parse as a float (the empty string
\* of a timeout and the no-connection text among them), read_current leaves
\* the store as it was, shows the invalid-reading error with the response,
\* and the run goes on without an exception.
C2_InvalidReadLeavesStore ==
    [][/\ ~ParseFloat(<<>>).ok
       /\ ~ParseFloat(ErrNoConn).ok
       /\ \A s \in Sessions :
             (/\ pc[s] = "read_parse"
              /\ pc'[s] # "read_parse"
              /\ ~ParseFloat(resp[s]).ok)
             => /\ session_state'[s] = session_state[s]
                /\ page'[s].invalid = resp[s]
                /\ page'[s].exception = "none"
                /\ pc'[s] = "display"]_vars

\* A READ has just timed out with a sample already in the store.
C2_Witness ==
    \E s \in Sessions :
        /\ pc[s] = "display"
        /\ run[s].reading = "invalid"
        /\ run[s].writes = <<"READ">>
        /\ page[s].invalid = <<>>
        /\ Len(Data(s)) = 1

\* C3 as claimed: a run performs at most one exchange with the device.
C3_AtMostOneExchangePerRun ==
    \A s \in Sessions : InRun(s) => Len(run[s].writes) <= 1

\* C3, amended: a run performs at most one exchange for the button that was
\* clicked (none when no button was), and besides it one STATUS exchange
\* when System Control is selected and none in the other tabs: at most two
\* exchanges in System Control, at most one elsewhere.
C3_OneCommandPlusStatus ==
    \A s \in Sessions :
        InRun(s) =>
            LET w == run[s].writes
            IN  /\ Count(w, "STATUS") <= 1
                /\ Len(w) - Count(w, "STATUS") <= 1
                /\ clicked[s] = NoClick => Len(w) = Count(w, "STATUS")
                /\ selected[s] # "System Control" => Count(w, "STATUS") = 0

\* A click on Button 2 in System Control has made two exchanges.
C3_Witness ==
    \E s \in Sessions :
        /\ pc[s] = "idle"
        /\ selected[s] = "System Control"
        /\ run[s].writes = <<"TOGGLE2", "STATUS">>
        /\ run[s].reads = 2

\* C4: a STATUS response that is split into k tokens is shown without an
\* error: its first min(k, 5) tokens are the rows, and no IndexError ends
\* the run.
C4_StatusDisplayNeverRaises ==
    \A s \in Sessions :
        (InRun(s) /\ run[s].states # <<>>) =>
            LET k == Len(run[s].states)
                n == IF k < NumStatusCols THEN k ELSE NumStatusCols
            IN  /\ page[s].rows = SubSeq(run[s].states, 1, n)
                /\ page[s].exception # "IndexError"

\* C5: at most one command is in flight on the serial link, whatever the
\* interleaving of the sessions' runs.
C5_OneCommandInFlight == Cardinality(inflight) <= 1

\* C6: the port is opened at most once in the process and the result stays
\* cached: every run gets the cached value, and when the open failed every
\* send_command of every later run returns the no-connection text, with
\* nothing written and no exception.
C6_OpenedOnceAndCached ==
    /\ [](/\ opens <= 1
          /\ \A s \in active :
                InRun(s) =>
                    /\ cache.hit
                    /\ opens = 1
                    /\ ser[s] = cache.value
                    /\ cache.value = None =>
                          /\ run[s].writes = <<>>
                          /\ page[s].exception = "none"
                          /\ pc[s] \in ReturnLabels => resp[s] = ErrNoConn)
    /\ [][cache.hit => (cache' = cache /\ opens' = opens)]_vars

\* The open failed; one session's STATUS has just returned the
\* no-connection text and the other session runs with the same null handle.
C6_Witness ==
    /\ cache = [hit |-> TRUE, value |-> None]
    /\ opens = 1
    /\ pc["s1"] = "status_display"
    /\ resp["s1"] = ErrNoConn
    /\ pc["s2"] = "power_response"
    /\ resp["s2"] = ErrNoConn
    /\ ser["s2"] = None

\* C7: send_command with a null handle returns exactly the no-connection
\* text and does no I/O: nothing is written, nothing is read.
C7_NullHandleNoIO ==
    [][\A s \in Sessions :
          (/\ pc[s] = "send_command"
           /\ pc'[s] # "send_command"
           /\ ser[s] = None)
          => /\ resp'[s] = ErrNoConn
             /\ pc'[s] = ret[s]
             /\ inflight' = inflight
             /\ run'[s].writes = run[s].writes
             /\ run'[s].reads = run[s].reads]_vars

\* READ has just returned the no-connection text, after STATUS did, and
\* the run has written and read nothing.
C7_Witness ==
    \E s \in Sessions :
        /\ pc[s] = "read_parse"
        /\ ser[s] = None
        /\ resp[s] = ErrNoConn
        /\ run[s].calls = <<"STATUS", "READ">>
        /\ run[s].writes = <<>>
        /\ run[s].reads = 0

\* C8: the store is append-only and ordered: every step leaves the rows it
\* had as a prefix of the rows it has, and the timestamps never decrease
\* along the store.
C8_AppendOnlyOrdered ==
    /\ [][\A s \in Sessions :
             IsPrefix(Data(s), session_state'[s].data)]_vars
    /\ [](\A s \in Sessions :
             \A i, j \in 1..Len(Data(s)) :
                 i <= j => Data(s)[i].timestamp <= Data(s)[j].timestamp)

\* Two samples are stored, the second later than the first, and the
\* operator has moved to another tab since.
C8_Witness ==
    \E s \in Sessions :
        /\ pc[s] = "idle"
        /\ selected[s] = "Report and Data Analytics"
        /\ Len(Data(s)) = 2
        /\ Data(s)[1].timestamp < Data(s)[2].timestamp

\* C9 as claimed: every run of the script issues STATUS, whatever the tab.
C9_StatusEveryRun ==
    \A s \in Sessions : pc[s] = "idle" => Count(run[s].calls, "STATUS") = 1

\* C9, amended: STATUS is issued once in every run with System Control
\* selected, unless an exception in the TOGGLE exchange before it ended the
\* run, and never in a run of the other two tabs.
C9_StatusOnlyInSystemControl ==
    \A s \in Sessions :
        InRun(s) =>
            LET n == Count(run[s].calls, "STATUS")
            IN  /\ n <= 1
                /\ selected[s] # "System Control" => n = 0
                /\ (selected[s] = "System Control" /\ pc[s] = "idle" /\ n = 0)
                      => /\ page[s].exception = "UnicodeDecodeError"
                         /\ Len(run[s].calls) = 1
                         /\ clicked[s] \in BulbButtons

\* A run of System Control has ended after its one STATUS exchange.
C9_Witness ==
    \E s \in Sessions :
        /\ pc[s] = "idle"
        /\ selected[s] = "System Control"
        /\ run[s].calls = <<"STATUS">>
        /\ run[s].writes = <<"STATUS">>
        /\ page[s].rows = <<ON, OFF, ON, OFF, ON>>

\* C10: once display_current_reading has run, the metric on the page is the
\* current of the last row of the store, as f"{x:.2f} A" writes it, and
\* there is no metric when the store is empty; after a READ stored in the
\* same run it is that READ's value.
C10_LatestValueView ==
    \A s \in Sessions :
        (InRun(s) /\ run[s].viewed) =>
            /\ Data(s) = <<>> => page[s].metric = NoMetric
            /\ Data(s) # <<>> =>
                  page[s].metric = Fmt2(LastRow(Data(s)).current)
            /\ run[s].reading = "stored" =>
                  page[s].metric = Fmt2(run[s].value)

\* "0.125" was read after "1.5" and the page shows 0.12 A.
C10_Witness ==
    \E s \in Sessions :
        /\ run[s].viewed
        /\ run[s].reading = "stored"
        /\ Len(Data(s)) = 2
        /\ Data(s)[1].current = 1500
        /\ Data(s)[2].current = 125
        /\ page[s].metric = [hundredths |-> 12, unit |-> "A"]

=============================================================================
